---- MODULE Spec2Model ----
(***************************************************************************)
(* mkulid: a command-line ULID generator and inspector (src/main.rs).      *)
(*                                                                         *)
(* The state machine is one run of `main`: the parsed command line, the    *)
(* monotonic generator created by generate_ulids, the loop position, the   *)
(* lines printed and the error returned.  The calls main.rs makes into the *)
(* `ulid` crate (Generator, Ulid, base-32 text form) are modelled by what  *)
(* those calls compute.  A ULID is TimeBits + RandBits wide (48 + 80 in    *)
(* the program); the widths are scaled down so that every value, every     *)
(* overflow and every text of ULID_LEN characters can be enumerated.       *)
(***************************************************************************)
EXTENDS Integers, Sequences, FiniteSets

\* ------------------------------------------------------------------ bounds

\* width of the timestamp field (Ulid::TIME_BITS, 48 in the program)
TimeBits == 3
\* width of the random field (Ulid::RAND_BITS, 80 in the program)
RandBits == 3
\* largest --count enumerated
MaxCount == 2
\* largest wall-clock reading, in milliseconds, enumerated for generate()
MaxClock == 3

\* ------------------------------------------------------------- arithmetic

RECURSIVE Pow(_, _)
Pow(b, n) == IF n = 0 THEN 1 ELSE b * Pow(b, n - 1)

ValueBits == TimeBits + RandBits
\* bitmask!(TIME_BITS), bitmask!(RAND_BITS) and u128::MAX
MaxTime == Pow(2, TimeBits) - 1
MaxRandom == Pow(2, RandBits) - 1
MaxValue == Pow(2, ValueBits) - 1

\* Option<T>
None == <<>>
Some(x) == <<x>>
\* Result<T, E>
Ok(v) == [ok |-> TRUE, v |-> v]
Err(e) == [ok |-> FALSE, e |-> e]

\* --------------------------------------------------------------- the text

\* Crockford base 32, most significant character first
ALPHABET ==
  << "0", "1", "2", "3", "4", "5", "6", "7", "8", "9",
     "A", "B", "C", "D", "E", "F", "G", "H", "J", "K",
     "M", "N", "P", "Q", "R", "S", "T", "V", "W", "X", "Y", "Z" >>

Base == Len(ALPHABET)

\* number of characters of the text form (26 for 128 bits): the least n with
\* Base^n > MaxValue
ULID_LEN == CHOOSE n \in 1..ValueBits :
              /\ Pow(Base, n) > MaxValue
              /\ \A m \in 1..(n - 1) : Pow(Base, m) <= MaxValue

Upper == << "A", "B", "C", "D", "E", "F", "G", "H", "I", "J", "K", "L", "M",
            "N", "O", "P", "Q", "R", "S", "T", "U", "V", "W", "X", "Y", "Z" >>
Lower == << "a", "b", "c", "d", "e", "f", "g", "h", "i", "j", "k", "l", "m",
            "n", "o", "p", "q", "r", "s", "t", "u", "v", "w", "x", "y", "z" >>

Range(s) == { s[k] : k \in 1..Len(s) }
IndexOf(s, c) == CHOOSE k \in 1..Len(s) : s[k] = c

\* char::to_ascii_lowercase / to_ascii_uppercase on one character
LowerChar(c) == IF c \in Range(Upper) THEN Lower[IndexOf(Upper, c)] ELSE c
UpperChar(c) == IF c \in Range(Lower) THEN Upper[IndexOf(Lower, c)] ELSE c

\* str::to_lowercase and its inverse on the characters used here
to_lowercase(s) == [k \in 1..Len(s) |-> LowerChar(s[k])]
to_uppercase(s) == [k \in 1..Len(s) |-> UpperChar(s[k])]

\* a character that is not ASCII: two bytes in the UTF-8 text of a String
NonAscii == "\\u00e9"

\* number of bytes of a character, and str::len (a length in bytes)
Utf8Len(c) == IF c = NonAscii THEN 2 ELSE 1
RECURSIVE ByteLen(_)
ByteLen(s) == IF s = <<>> THEN 0 ELSE Utf8Len(Head(s)) + ByteLen(Tail(s))

\* the bytes of a text; a byte of a non-ASCII character is no ASCII character
RECURSIVE Bytes(_)
Bytes(s) ==
  IF s = <<>> THEN <<>>
  ELSE (IF Head(s) = NonAscii THEN << "\\xC3", "\\xA9" >> ELSE << Head(s) >>)
       \o Bytes(Tail(s))

\* ------------------------------------------------------ the base-32 codec

\* a decoding table that knows the upper-case characters only
LOOKUP_case_sensitive(b) ==
  IF b \in Range(ALPHABET) THEN Some(IndexOf(ALPHABET, b) - 1) ELSE None

\* a decoding table that reads I and L as 1 and O as 0
LOOKUP_aliases(b) ==
  IF UpperChar(b) \in Range(ALPHABET)
  THEN Some(IndexOf(ALPHABET, UpperChar(b)) - 1)
  ELSE IF UpperChar(b) \in { "I", "L" } THEN Some(1)
  ELSE IF UpperChar(b) = "O" THEN Some(0)
  ELSE None

\* the decoding table: the value of a byte, for the characters of ALPHABET
\* in either case, and no value for every other byte
LOOKUP(b) ==
  IF UpperChar(b) \in Range(ALPHABET)
  THEN Some(IndexOf(ALPHABET, UpperChar(b)) - 1)
  ELSE None

\* an encoder that writes the least significant group first
encode_reversed(value) ==
  [k \in 1..ULID_LEN |-> ALPHABET[((value \div Pow(Base, k - 1)) % Base) + 1]]

\* Ulid::to_string: the character at position k is the k-th group of five
\* bits, counted from the most significant; always ULID_LEN characters
encode(value) ==
  [k \in 1..ULID_LEN |->
     ALPHABET[((value \div Pow(Base, ULID_LEN - k)) % Base) + 1]]

\* the loop of the decoder over the bytes: value = (value << 5) | val in the
\* width of the value, so bits shifted past the top are dropped
RECURSIVE decode_bytes(_, _)
decode_bytes(bytes, value) ==
  IF bytes = <<>> THEN Ok(value)
  ELSE IF LOOKUP(Head(bytes)) = None THEN Err("InvalidChar")
  ELSE decode_bytes(Tail(bytes),
                    (value * Base + LOOKUP(Head(bytes))[1]) % (MaxValue + 1))

\* str::parse::<Ulid>: the length in bytes is checked first, then each byte
decode(text) ==
  IF ByteLen(text) # ULID_LEN THEN Err("InvalidLength")
  ELSE decode_bytes(Bytes(text), 0)

\* ------------------------------------------------------------------- Ulid

\* Ulid::timestamp_ms and Ulid::random
timestamp_ms(ulid) == ulid \div (MaxRandom + 1)
random(ulid) == ulid % (MaxRandom + 1)

\* a composition that shifts the timestamp one bit short
from_parts_narrow(ms, rand) ==
  ((ms % (MaxTime + 1)) * ((MaxRandom + 1) \div 2)) + (rand % (MaxRandom + 1))

\* composition of a value from its fields: each field is masked to its width
from_parts(ms, rand) ==
  ((ms % (MaxTime + 1)) * (MaxRandom + 1)) + (rand % (MaxRandom + 1))

\* an increment that carries out of the random field
increment_wrapping(ulid) == Some((ulid + 1) % (MaxValue + 1))

\* Ulid::increment: None when the random field is all ones
increment(ulid) ==
  IF random(ulid) = MaxRandom THEN None ELSE Some(ulid + 1)

\* -------------------------------------------------------------- Generator

\* Generator::new: the previous value starts as Ulid::nil, the value 0
Generator_new == [previous |-> 0]

\* a generator that increments only when the time equals the previous one
generate_from_datetime_same_ms_only(gen, ms, rand) ==
  IF ms = timestamp_ms(gen.previous)
  THEN IF increment(gen.previous) # None
       THEN << Ok(increment(gen.previous)[1]),
               [previous |-> increment(gen.previous)[1]] >>
       ELSE << Err("Overflow"), gen >>
  ELSE << Ok(from_parts(ms, rand)), [previous |-> from_parts(ms, rand)] >>

\* Generator::generate_from_datetime(datetime), with `rand` the bits the
\* random source yields if asked: the pair of the result and the generator
\* after the call
generate_from_datetime(gen, ms, rand) ==
  IF ms <= timestamp_ms(gen.previous)
  THEN IF increment(gen.previous) # None
       THEN << Ok(increment(gen.previous)[1]),
               [previous |-> increment(gen.previous)[1]] >>
       ELSE << Err("Overflow"), gen >>
  ELSE << Ok(from_parts(ms, rand)), [previous |-> from_parts(ms, rand)] >>

\* ------------------------------------------------------------ command line

\* the characters a text given to --inspect is made of: the alphabet in both
\* cases, the four excluded letters in both cases, a punctuation mark and a
\* character outside ASCII
Excluded == { "I", "L", "O", "U" }
InputChars ==
  Range(ALPHABET) \cup { LowerChar(c) : c \in Range(ALPHABET) }
    \cup Excluded \cup { LowerChar(c) : c \in Excluded } \cup { "-", NonAscii }

\* texts of up to one character more than a ULID has
Texts == UNION { [1..n -> InputChars] : n \in 0..(ULID_LEN + 1) }

\* --timestamp is a u64: values below, at and above the width of the field
TimestampArgs == 0..(MaxTime + 2)

\* --datetime after DateTime::parse_from_rfc3339: rejected, or a count of
\* milliseconds that may be negative; a year of RFC 3339 has four digits, so
\* the count fits the timestamp field
DatetimeArgs ==
  { [parsed |-> FALSE, millis |-> 0] }
    \cup { [parsed |-> TRUE, millis |-> m] : m \in { -1, 0, 1, MaxTime } }

\* Cli, with the conflicts clap enforces: --inspect excludes every other
\* option, --timestamp excludes --datetime
InspectArgs ==
  { [inspect |-> Some(t), timestamp |-> None, datetime |-> None,
     count |-> 1, lowercase |-> FALSE] : t \in Texts }

GenerateArgs ==
  { c \in [inspect : { None },
           timestamp : { None } \cup { Some(t) : t \in TimestampArgs },
           datetime : { None } \cup { Some(d) : d \in DatetimeArgs },
           count : 0..MaxCount, lowercase : BOOLEAN] :
      c.timestamp = None \/ c.datetime = None }

CliArgs == InspectArgs \cup GenerateArgs

\* resolve_timestamp: the pinned time in milliseconds since the epoch, if any
resolve_timestamp(c) ==
  IF c.timestamp # None THEN Ok(Some(c.timestamp[1]))
  ELSE IF c.datetime # None
       THEN IF ~c.datetime[1].parsed THEN Err("ParseDatetime")
            ELSE IF c.datetime[1].millis < 0 THEN Err("BeforeEpoch")
            ELSE Ok(Some(c.datetime[1].millis))
  ELSE Ok(None)

\* the line generate_ulids prints for a value
formatted(lowercase, ulid) ==
  IF lowercase THEN to_lowercase(encode(ulid)) ELSE encode(ulid)

\* ------------------------------------------------------------------ state

VARIABLES
  pc,           \* "main", "loop", "done" (Ok returned), "failed" (Err returned)
  cli,          \* the parsed command line
  pinned_time,  \* generate_ulids: the resolved pinned time
  generator,    \* generate_ulids: the Generator
  i,            \* generate_ulids: iterations of the loop completed
  stdout,       \* the lines generate_ulids has printed
  report,       \* what inspect_ulid has printed
  error,        \* the error main returns
  calls,        \* number of calls made to the generator
  requested,    \* the time, in milliseconds, the last call was made with
  returned,     \* the values the generator has returned, in order
  codec         \* arguments and results of the codec when applied on its own

vars == << pc, cli, pinned_time, generator, i, stdout, report, error,
           calls, requested, returned, codec >>

run == << pc, cli, pinned_time, generator, i, stdout, report, error,
          calls, requested, returned >>

\* the state when main starts with the command line c
Start(c) ==
  /\ pc = "main"
  /\ cli = c
  /\ pinned_time = None
  /\ generator = Generator_new
  /\ i = 0
  /\ stdout = <<>>
  /\ report = None
  /\ error = None
  /\ calls = 0
  /\ requested = None
  /\ returned = <<>>
  /\ codec = [op |-> "none"]

Init == \E c \in CliArgs : Start(c)

\* ---------------------------------------------------------------- actions

\* main with --inspect: inspect_ulid
InspectUlid ==
  /\ pc = "main"
  /\ cli.inspect # None
  /\ LET ulid == decode(cli.inspect[1]) IN
       IF ulid.ok
       THEN /\ report' = Some([ulid |-> encode(ulid.v),
                               unix_ms |-> timestamp_ms(ulid.v),
                               random |-> random(ulid.v)])
            /\ pc' = "done"
            /\ error' = error
       ELSE /\ error' = Some(ulid.e)
            /\ pc' = "failed"
            /\ report' = report
  /\ UNCHANGED << cli, pinned_time, generator, i, stdout, calls, requested,
                  returned, codec >>

\* main without --inspect: generate_ulids up to the loop
GenerateUlids ==
  /\ pc = "main"
  /\ cli.inspect = None
  /\ LET pinned == resolve_timestamp(cli) IN
       IF pinned.ok
       THEN /\ pinned_time' = pinned.v
            /\ pc' = "loop"
            /\ error' = error
       ELSE /\ error' = Some(pinned.e)
            /\ pc' = "failed"
            /\ pinned_time' = pinned_time
  /\ generator' = Generator_new
  /\ i' = 0
  /\ UNCHANGED << cli, stdout, report, calls, requested, returned, codec >>

\* an iteration that goes on to the next one when the call fails
GenerateNext_ignoring_error ==
  /\ pc = "loop"
  /\ i < cli.count
  /\ \E now \in 0..MaxClock, rand \in 0..MaxRandom :
       LET ms == IF pinned_time # None THEN pinned_time[1] ELSE now
           res == generate_from_datetime(generator, ms, rand)
       IN /\ calls' = calls + 1
          /\ requested' = Some(ms)
          /\ generator' = res[2]
          /\ i' = i + 1
          /\ IF res[1].ok
             THEN /\ returned' = Append(returned, res[1].v)
                  /\ stdout' = Append(stdout, formatted(cli.lowercase, res[1].v))
                  /\ UNCHANGED << pc, error >>
             ELSE /\ error' = Some(res[1].e)
                  /\ UNCHANGED << pc, returned, stdout >>
  /\ UNCHANGED << cli, pinned_time, report, codec >>

\* one iteration of the loop of generate_ulids: `now` is the wall clock read
\* by generate(), `rand` the bits of the random source
GenerateNext ==
  /\ pc = "loop"
  /\ i < cli.count
  /\ \E now \in 0..MaxClock, rand \in 0..MaxRandom :
       LET ms == IF pinned_time # None THEN pinned_time[1] ELSE now
           res == generate_from_datetime(generator, ms, rand)
       IN /\ calls' = calls + 1
          /\ requested' = Some(ms)
          /\ generator' = res[2]
          /\ IF res[1].ok
             THEN /\ returned' = Append(returned, res[1].v)
                  /\ stdout' = Append(stdout, formatted(cli.lowercase, res[1].v))
                  /\ i' = i + 1
                  /\ UNCHANGED << pc, error >>
             ELSE /\ error' = Some(res[1].e)
                  /\ pc' = "failed"
                  /\ UNCHANGED << returned, stdout, i >>
  /\ UNCHANGED << cli, pinned_time, report, codec >>

\* the loop of generate_ulids is over: Ok(())
GenerateDone ==
  /\ pc = "loop"
  /\ i >= cli.count
  /\ pc' = "done"
  /\ UNCHANGED << cli, pinned_time, generator, i, stdout, report, error,
                  calls, requested, returned, codec >>

Next == InspectUlid \/ GenerateUlids \/ GenerateNext \/ GenerateDone

Spec == Init /\ [][Next]_vars

\* ------------------------------------------------- the codec on its own

\* arguments for the codec: a value and a letter case to print it in, or the
\* fields of two values
CodecArgs ==
  { [op |-> "text", value |-> v, lowercase |-> lc, text |-> None,
     back |-> None] : v \in 0..MaxValue, lc \in BOOLEAN }
  \cup
  { [op |-> "parts", t1 |-> t1, r1 |-> r1, t2 |-> t2, r2 |-> r2,
     first |-> None, second |-> None] :
      t1 \in 0..MaxTime, t2 \in 0..MaxTime,
      r1 \in 0..MaxRandom, r2 \in 0..MaxRandom }

CodecInit ==
  /\ pc = "codec"
  /\ cli = [inspect |-> None, timestamp |-> None, datetime |-> None,
            count |-> 0, lowercase |-> FALSE]
  /\ pinned_time = None
  /\ generator = Generator_new
  /\ i = 0
  /\ stdout = <<>>
  /\ report = None
  /\ error = None
  /\ calls = 0
  /\ requested = None
  /\ returned = <<>>
  /\ codec \in CodecArgs

\* a value is printed as generate_ulids prints it
CodecFormat ==
  /\ pc = "codec"
  /\ codec.op = "text"
  /\ codec.text = None
  /\ codec' = [codec EXCEPT !.text = Some(formatted(codec.lowercase, codec.value))]
  /\ UNCHANGED run

\* the printed text is parsed as inspect_ulid parses its argument
CodecParse ==
  /\ pc = "codec"
  /\ codec.op = "text"
  /\ codec.text # None
  /\ codec.back = None
  /\ codec' = [codec EXCEPT !.back = Some(decode(codec.text[1]))]
  /\ UNCHANGED run

\* two values are composed from their fields
CodecCompose ==
  /\ pc = "codec"
  /\ codec.op = "parts"
  /\ codec.first = None
  /\ codec' = [codec EXCEPT !.first = Some(from_parts(codec.t1, codec.r1)),
                            !.second = Some(from_parts(codec.t2, codec.r2))]
  /\ UNCHANGED run

CodecNext == CodecFormat \/ CodecParse \/ CodecCompose

CodecSpec == CodecInit /\ [][CodecNext]_vars

\* the runs of generate_ulids: main started without --inspect.  A sequential
\* program keeps running until main returns.
GenerateInit == \E c \in GenerateArgs : Start(c)

GenerateRun == GenerateUlids \/ GenerateNext \/ GenerateDone

GenerateSpec == GenerateInit /\ [][GenerateRun]_vars /\ WF_vars(GenerateRun)

\* ------------------------------------------------------------- properties

Last(s) == s[Len(s)]

\* a call to the generator is made in this step
Called == calls' = calls + 1

\* C1: with a pinned timestamp, every value the generator returns is strictly
\* greater than the value it returned before
C1_PinnedStrictlyIncreasing ==
  pinned_time # None =>
    \A k \in 2..Len(returned) : returned[k] > returned[k - 1]

\* C2: a call made with the timestamp of the previous value, whose random
\* field is all ones, fails with the overflow error, returns nothing and
\* leaves the generator as it was
C2_OverflowLeavesState ==
  [][(/\ Called
      /\ random(generator.previous) = MaxRandom
      /\ requested' = Some(timestamp_ms(generator.previous)))
     => (/\ generator' = generator
         /\ returned' = returned
         /\ stdout' = stdout
         /\ pc' = "failed"
         /\ error' = Some("Overflow"))]_vars

C2_Witness ==
  /\ pc = "failed"
  /\ error = Some("Overflow")
  /\ random(generator.previous) = MaxRandom
  /\ requested = Some(timestamp_ms(generator.previous))

\* C3: two calls with the same pinned timestamp t on a fresh generator return
\* values whose timestamp fields are t and whose random fields differ by one
C3_SameMillisecondIncrement ==
  (pinned_time # None /\ Len(returned) >= 2) =>
    /\ timestamp_ms(returned[1]) = pinned_time[1]
    /\ timestamp_ms(returned[2]) = pinned_time[1]
    /\ random(returned[2]) = random(returned[1]) + 1

\* C4: the text of every value has ULID_LEN characters of the alphabet, and
\* parsing the text gives the value back
C4_DecodeEncode ==
  codec.op = "text" =>
    /\ codec.text # None =>
         /\ Len(codec.text[1]) = ULID_LEN
         /\ \A k \in 1..Len(codec.text[1]) :
              UpperChar(codec.text[1][k]) \in Range(ALPHABET)
         /\ ~codec.lowercase =>
              \A k \in 1..Len(codec.text[1]) :
                codec.text[1][k] \in Range(ALPHABET)
    /\ codec.back # None => codec.back[1] = Ok(codec.value)

C4_Witness ==
  /\ codec.op = "text"
  /\ codec.back # None
  /\ codec.lowercase
  /\ codec.value = MaxValue

\* a text of ULID_LEN characters of the alphabet, in any letter case
IsBase32Text(t) ==
  /\ Len(t) = ULID_LEN
  /\ \A k \in 1..Len(t) : UpperChar(t[k]) \in Range(ALPHABET)

\* the first character of a text stands for bits that fit the value
FirstCharFits(t) ==
  (IndexOf(ALPHABET, UpperChar(t[1])) - 1) * Pow(Base, ULID_LEN - 1) <= MaxValue

C6_RejectsByCharacters ==
  (cli.inspect # None /\ pc # "main") =>
    /\ Len(cli.inspect[1]) # ULID_LEN =>
         pc = "failed" /\ error = Some("InvalidLength") /\ report = None
    /\ (/\ Len(cli.inspect[1]) = ULID_LEN
        /\ \E k \in 1..Len(cli.inspect[1]) :
             UpperChar(cli.inspect[1][k]) \notin Range(ALPHABET)) =>
         pc = "failed" /\ error = Some("InvalidChar") /\ report = None

\* C6 as amended: the length that is checked is the length in bytes
C6_RejectsByBytes ==
  (cli.inspect # None /\ pc # "main") =>
    /\ ByteLen(cli.inspect[1]) # ULID_LEN =>
         pc = "failed" /\ error = Some("InvalidLength") /\ report = None
    /\ (/\ ByteLen(cli.inspect[1]) = ULID_LEN
        /\ \E k \in 1..Len(cli.inspect[1]) :
             UpperChar(cli.inspect[1][k]) \notin Range(ALPHABET)) =>
         pc = "failed" /\ error = Some("InvalidChar") /\ report = None

C6_Witness ==
  /\ cli.inspect # None
  /\ pc = "failed"
  /\ error = Some("InvalidChar")
  /\ Len(cli.inspect[1]) = ULID_LEN
  /\ \A k \in 1..Len(cli.inspect[1]) : cli.inspect[1][k] = "I"

\* C7: a call made with a timestamp wider than the timestamp field fails
\* with TimestampOverflow
C7_TimestampOverflowRejected ==
  (requested # None /\ requested[1] > MaxTime) =>
    pc = "failed" /\ error = Some("TimestampOverflow")

\* C8: a value composed from a smaller timestamp is smaller, whatever the
\* random fields, and a value is its timestamp shifted left of its random field
C8_TimestampOrders ==
  (codec.op = "parts" /\ codec.first # None) =>
    /\ codec.first[1] = codec.t1 * (MaxRandom + 1) + codec.r1
    /\ codec.second[1] = codec.t2 * (MaxRandom + 1) + codec.r2
    /\ codec.t1 < codec.t2 => codec.first[1] < codec.second[1]

C8_Witness ==
  /\ codec.op = "parts"
  /\ codec.first # None
  /\ codec.t1 + 1 = codec.t2
  /\ codec.r1 = MaxRandom
  /\ codec.r2 = 0

\* C9: a call made with a timestamp smaller than the timestamp of the previous
\* value either fails or returns a greater value with no smaller timestamp,
\* and the previous value of the generator is never replaced by a smaller one
C9_NoRegression ==
  [][(Called /\ requested'[1] < timestamp_ms(generator.previous))
     => (/\ generator'.previous >= generator.previous
         /\ \/ pc' = "failed" /\ returned' = returned
            \/ /\ Len(returned') = Len(returned) + 1
               /\ Last(returned') > generator.previous
               /\ Last(returned') = generator'.previous
               /\ timestamp_ms(Last(returned'))
                    >= timestamp_ms(generator.previous))]_vars

C9_Witness ==
  /\ Len(returned) >= 2
  /\ requested[1] < timestamp_ms(returned[Len(returned) - 1])
  /\ Last(returned) > returned[Len(returned) - 1]

\* C10: generate_ulids makes at most count calls; when it returns Ok it has
\* printed the count values returned, in order; when a call fails it has
\* printed the values of the calls before it, returns the error and makes no
\* further call; and it returns
C10_Safe ==
  cli.inspect = None =>
    /\ calls <= cli.count
    /\ Len(returned) = Len(stdout)
    /\ \A k \in 1..Len(stdout) :
         stdout[k] = formatted(cli.lowercase, returned[k])
    /\ pc = "loop" => calls = i /\ Len(stdout) = i /\ error = None
    /\ pc = "done" =>
         calls = cli.count /\ Len(stdout) = cli.count /\ error = None
    /\ (pc = "failed" /\ calls > 0) =>
         Len(stdout) = calls - 1 /\ error = Some("Overflow")

C10_CountBoundsTheRun ==
  /\ []C10_Safe
  /\ [][(pc \in { "done", "failed" }) => (calls' = calls /\ stdout' = stdout)]_vars
  /\ <>(pc \in { "done", "failed" })

C10_Witness ==
  /\ pc = "failed"
  /\ calls = 2
  /\ Len(stdout) = 1

====
